---------------------------- MODULE Spec2Model ----------------------------
(***************************************************************************)
(* StakeVault: the escrow engine of soul-ledger (the Solidity contract     *)
(* kept in src/unnamed/part_002, lines 1-166).                             *)
(*                                                                         *)
(* One action per external function of the contract.  A Solidity call is a *)
(* transaction: a failed `require` (or a checked-arithmetic panic) reverts *)
(* every storage write and every event of the call, so a rejected call     *)
(* leaves the contract storage, the token balances and the event log as    *)
(* they were.  The reason a call is rejected with is the value of its      *)
(* ...Checks operator; a call the token refused is recorded in `refused`.  *)
(*                                                                         *)
(* Scaling.  Amounts and times are uint256 in the source.  The model keeps *)
(* the checked arithmetic of Solidity 0.8 (an overflow aborts the call)    *)
(* over a narrower word, UINT_MAX, and counts block time in half days, so  *)
(* that `1 days` is DAY = 2 time units.                                    *)
(***************************************************************************)
EXTENDS Integers, FiniteSets, Sequences, Bags, TLC

\* ------------------------------------------------------------------ bounds
MaxChallenges == 1      \* Spec offers createChallenge while nextChallengeId < MaxChallenges
MaxAmount     == 3      \* amounts offered to createChallenge: 0..MaxAmount
MaxDuration   == 2      \* durations offered to createChallenge: 0..MaxDuration
NearStart     == 0      \* the near start time offered to createChallenge
MaxNow        == 4      \* block.timestamp advances up to MaxNow
MaxDepth      == 1      \* calls of the vault that may wait for the token at once
MaxClock      == 5      \* the server's clock advances up to MaxClock
MaxCalls      == 2      \* addTodo calls made by each request handler

\* --------------------------------------------------------- program constants
UINT_MAX == 255         \* type(uint256).max, over a narrower word
DAY      == 2           \* `1 days`, in half days
MS_PER_DAY == 2         \* the length of a UTC calendar day, in half days

\* ------------------------------------------------------------------ inputs
Zero      == "0x0"                                  \* address(0)
Vault     == "vault"                                \* address(this)
Admin     == "admin"                                \* the deployer
Verifiers == {"v1", "v2"}
Users     == {"alice", "bob"}
Senders   == {Admin} \cup Verifiers \cup Users      \* msg.sender is never address(0)
Holders   == Senders \cup {Vault}

\* one id more than Spec ever assigns: calls on it meet an empty storage slot
ChallengeIds  == 1..(MaxChallenges + 1)
Amounts       == 0..MaxAmount
Durations     == 0..MaxDuration
DayIndices    == 0..MaxDuration
Beneficiaries == {Zero, "bob"}
\* start times: a near one, and one so late that startTime + 1 days leaves the word
FarStart      == UINT_MAX - 1
StartTimes    == {NearStart, FarStart}
Requests      == {"r1", "r2"}                          \* concurrent request handlers

VARIABLES
    nextChallengeId,    \* uint256 public nextChallengeId
    challenges,         \* mapping(uint256 => Challenge)
    verifier,           \* address public verifier
    owner,              \* address public owner (contract admin)
    now,                \* block.timestamp
    balance,            \* the token's ledger: holder -> amount
    events,             \* the event log, as the bag of emitted events
    paidToUser,         \* history: per challenge, total transferred by claimUnlocked
    paidToBeneficiary,  \* history: per challenge, total transferred by finalize
    refused,            \* the call the token has just refused, if any: [op, id, res]
    pending,            \* the calls of the vault waiting for the token to return,
                        \* innermost first: the token may call back into the vault
    clock,              \* the server's clock, read by new Date()
    claimStore,         \* the ClaimState stored under claim:user:<userId>
    claimCall,          \* the claimDaily call in progress: its position and locals
    todoStore,          \* the TodoItem[] stored under todos:user:<userId>
    addTodoCalls        \* per request, the addTodo call: its position and locals

\* The state of the dashboard's key-value store and of the calls working on it.
appVars == <<clock, claimStore, claimCall, todoStore, addTodoCalls>>

vars == <<events, now, refused, verifier, pending, nextChallengeId, challenges,
          owner, balance, paidToUser, paidToBeneficiary, appVars>>

\* The state of the vault and of its token.
vaultVars == <<events, now, refused, verifier, pending, nextChallengeId, challenges,
               owner, balance, paidToUser, paidToBeneficiary>>

\* getClaimState's default: { lastClaimDate: null, streak: 0, points: 0 }.
\* lastClaimDate is null ({}) or one calendar day ({d}).
NoClaimState == [lastClaimDate |-> {}, streak |-> 0, points |-> 0]

\* The default value of a storage slot: every field zero, no day unlocked.
ZeroChallenge ==
    [user |-> Zero, beneficiary |-> Zero, principal |-> 0, released |-> 0,
     penalized |-> 0, startTime |-> 0, durationDays |-> 0, dailySlice |-> 0,
     finalized |-> FALSE, dayUnlocked |-> {}]

\* Checked uint256 arithmetic: the value, or the fact that it left the word.
Overflows(x) == x > UINT_MAX

Outcome(op, id, res) == [op |-> op, id |-> id, res |-> res]
NoRefusal == Outcome("none", 0, "OK")

\* Mutation of Revert: the rejected call leaves a trace in the event log.
Revert_leavesEvent(op, id, reason) ==
    /\ events' = events (+) SetToBag({<<"Rejected", id, op, reason>>})
    /\ UNCHANGED <<nextChallengeId, challenges, verifier, owner, now, balance,
                   paidToUser, paidToBeneficiary, refused, pending, appVars>>

\* A call rejected by a require or by a checked-arithmetic panic: the
\* transaction reverts and nothing changes.
Revert(op, id, reason) == UNCHANGED vars

\* A call reverted because the token refused the transfer: nothing changes
\* but the record of the refusal.
TransferRefused(op, id, reason) ==
    /\ refused' = Outcome(op, id, reason)
    /\ UNCHANGED <<nextChallengeId, challenges, verifier, owner, now, balance,
                   events, paidToUser, paidToBeneficiary, pending, appVars>>

\* constructor(usdc, initialVerifier).  alice holds MaxAmount tokens, bob none
\* (his deposits are refused by the token for lack of funds).
Init ==
    /\ nextChallengeId = 0
    /\ challenges = [i \in ChallengeIds |-> ZeroChallenge]
    /\ verifier = "v1"
    /\ owner = Admin
    /\ now = 0
    /\ balance = [h \in Holders |-> IF h = "alice" THEN MaxAmount ELSE 0]
    /\ events = EmptyBag
    /\ paidToUser = [i \in ChallengeIds |-> 0]
    /\ paidToBeneficiary = [i \in ChallengeIds |-> 0]
    /\ refused = NoRefusal
    /\ pending = <<>>
    /\ clock = 0
    /\ claimStore = NoClaimState
    /\ claimCall = [pc |-> "idle", state |-> NoClaimState, today |-> 0, result |-> NoClaimState]
    /\ todoStore = <<>>
    /\ addTodoCalls = [r \in Requests |->
                          [pc |-> "idle", todos |-> <<>>, calls |-> 0, returned |-> {}]]

\* Mutation of setVerifier: the onlyOwner modifier is missing.
setVerifier_noOwnerCheck(sender, v) ==
    /\ verifier' = v
    /\ refused' = NoRefusal
    /\ UNCHANGED <<nextChallengeId, challenges, owner, now, balance, events,
                   paidToUser, paidToBeneficiary, pending, appVars>>

\* Mutation of setVerifier: the days the previous verifier attested are
\* forgotten and their released amounts withdrawn.
setVerifier_clearsUnlocks(sender, v) ==
    IF sender # owner
    THEN Revert("setVerifier", 0, "NOT_OWNER")
    ELSE /\ verifier' = v
         /\ challenges' = [i \in ChallengeIds |->
                              [challenges[i] EXCEPT !.dayUnlocked = {}, !.released = 0]]
         /\ refused' = NoRefusal
         /\ UNCHANGED <<nextChallengeId, owner, now, balance, events,
                        paidToUser, paidToBeneficiary, pending, appVars>>

\* function setVerifier(address v) external onlyOwner
setVerifier(sender, v) ==
    IF sender # owner
    THEN Revert("setVerifier", 0, "NOT_OWNER")
    ELSE /\ verifier' = v
         /\ refused' = NoRefusal
         /\ UNCHANGED <<nextChallengeId, challenges, owner, now, balance, events,
                        paidToUser, paidToBeneficiary, pending, appVars>>

\* ------------------------------------------------------------- the token
\* IERC20.transferFrom / IERC20.transfer: the token moves `amount` and returns
\* true, or refuses (returns false or reverts).  `ok` is the token's own
\* willingness (allowance, pause, blacklist); a holder cannot send more than
\* it holds.
TransferSucceeds(from, amount, ok) == ok /\ balance[from] >= amount

Moved(from, to, amount) ==
    [h \in Holders |->
        IF from = to THEN balance[h]
        ELSE IF h = from THEN balance[h] - amount
        ELSE IF h = to THEN balance[h] + amount
        ELSE balance[h]]

\* Mutation of Emit: the entry is appended twice.
Emit_twice(e) == events (+) SetToBag({e}) (+) SetToBag({e})

Emit(e) == events (+) SetToBag({e})

\* ----------------------------------------------------------------- create
\* Mutation of createChecks: the AMOUNT_ZERO require is missing.
createChecks_noAmountCheck(beneficiary, amount, startTime, durationDays) ==
    IF beneficiary = Zero THEN "BENEFICIARY_ZERO"
    ELSE IF ~(durationDays > 0) THEN "DURATION_ZERO"
    ELSE IF ~(startTime >= now) THEN "START_PAST"
    ELSE "OK"

\* The four requires of createChallenge, in source order.
createChecks(beneficiary, amount, startTime, durationDays) ==
    IF beneficiary = Zero THEN "BENEFICIARY_ZERO"
    ELSE IF ~(amount > 0) THEN "AMOUNT_ZERO"
    ELSE IF ~(durationDays > 0) THEN "DURATION_ZERO"
    ELSE IF ~(startTime >= now) THEN "START_PAST"
    ELSE "OK"

\* Mutation of createRecord: the daily slice is rounded up.
createRecord_roundsUp(sender, beneficiary, amount, startTime, durationDays) ==
    [user |-> sender, beneficiary |-> beneficiary, principal |-> amount,
     released |-> 0, penalized |-> 0, startTime |-> startTime,
     durationDays |-> durationDays,
     dailySlice |-> (amount + durationDays - 1) \div durationDays,
     finalized |-> FALSE, dayUnlocked |-> {}]

\* Mutation of createRecord: the daily slice is never less than one unit.
createRecord_minimumSlice(sender, beneficiary, amount, startTime, durationDays) ==
    [user |-> sender, beneficiary |-> beneficiary, principal |-> amount,
     released |-> 0, penalized |-> 0, startTime |-> startTime,
     durationDays |-> durationDays,
     dailySlice |-> IF amount \div durationDays = 0 THEN 1 ELSE amount \div durationDays,
     finalized |-> FALSE, dayUnlocked |-> {}]

\* The record written to challenges[id].
createRecord(sender, beneficiary, amount, startTime, durationDays) ==
    [user |-> sender, beneficiary |-> beneficiary, principal |-> amount,
     released |-> 0, penalized |-> 0, startTime |-> startTime,
     durationDays |-> durationDays, dailySlice |-> amount \div durationDays,
     finalized |-> FALSE, dayUnlocked |-> {}]

\* Mutation of createTransferFailed: the token's refusal is reported but the
\* counter and the record written before the transfer are kept.
createTransferFailed_keepsRecord(id, c) ==
    /\ nextChallengeId' = id
    /\ challenges' = [challenges EXCEPT ![id] = c]
    /\ refused' = Outcome("createChallenge", id, "TRANSFER_FROM_FAIL")
    /\ UNCHANGED <<verifier, owner, now, balance, events, paidToUser, paidToBeneficiary, pending, appVars>>

\* require(transferFrom(...), "TRANSFER_FROM_FAIL") failing: the call reverts,
\* the counter and the record written before it included.
createTransferFailed(id, c) == TransferRefused("createChallenge", id, "TRANSFER_FROM_FAIL")

\* createChallenge with `id = nextChallengeId + 1` never stored back: used to
\* test the properties on identifiers.
createChallenge_reusesId(sender, beneficiary, amount, startTime, durationDays, ok) ==
    LET reason == createChecks(beneficiary, amount, startTime, durationDays)
        id     == IF nextChallengeId = 0 THEN 1 ELSE nextChallengeId
        c      == createRecord(sender, beneficiary, amount, startTime, durationDays)
    IN  IF reason # "OK" THEN Revert("createChallenge", id, reason)
        ELSE IF ~TransferSucceeds(sender, amount, ok) THEN createTransferFailed(id, c)
        ELSE /\ nextChallengeId' = id
             /\ challenges' = [challenges EXCEPT ![id] = c]
             /\ balance' = Moved(sender, Vault, amount)
             /\ events' = Emit(<<"ChallengeCreated", id, sender, beneficiary,
                                 amount, startTime, durationDays>>)
             /\ refused' = NoRefusal
             /\ UNCHANGED <<verifier, owner, now, paidToUser, paidToBeneficiary, pending, appVars>>

createChallenge(sender, beneficiary, amount, startTime, durationDays, ok) ==
    LET reason == createChecks(beneficiary, amount, startTime, durationDays)
        id     == nextChallengeId + 1
        c      == createRecord(sender, beneficiary, amount, startTime, durationDays)
    IN  IF reason # "OK" THEN Revert("createChallenge", id, reason)
        ELSE IF ~TransferSucceeds(sender, amount, ok) THEN createTransferFailed(id, c)
        ELSE /\ nextChallengeId' = id
             /\ challenges' = [challenges EXCEPT ![id] = c]
             /\ balance' = Moved(sender, Vault, amount)
             /\ events' = Emit(<<"ChallengeCreated", id, sender, beneficiary,
                                 amount, startTime, durationDays>>)
             /\ refused' = NoRefusal
             /\ UNCHANGED <<verifier, owner, now, paidToUser, paidToBeneficiary, pending, appVars>>

\* function getChallenge(uint256 id) external view: the nine scalar fields.
getChallenge(id) ==
    LET c == challenges[id]
    IN  <<c.user, c.beneficiary, c.principal, c.released, c.penalized, c.startTime,
          c.durationDays, c.dailySlice, c.finalized>>

\* function isDayUnlocked(uint256 id, uint256 dayIndex) external view
isDayUnlocked(id, dayIndex) == dayIndex \in challenges[id].dayUnlocked

\* ----------------------------------------------------------------- attest
\* Mutation of attestChecks: the ALREADY_UNLOCKED require is missing.
attestChecks_noUnlockedCheck(sender, id, dayIndex) ==
    LET c == challenges[id]
    IN  IF sender # verifier THEN "NOT_VERIFIER"
        ELSE IF c.finalized THEN "FINALIZED"
        ELSE IF c.user = Zero THEN "NOT_FOUND"
        ELSE IF ~(dayIndex < c.durationDays) THEN "BAD_DAY"
        ELSE IF Overflows(dayIndex * DAY) \/ Overflows(c.startTime + dayIndex * DAY)
             THEN "PANIC_OVERFLOW"
        ELSE IF ~(now >= c.startTime + dayIndex * DAY) THEN "DAY_NOT_STARTED"
        ELSE "OK"

\* Mutation of attestChecks: the FINALIZED require is missing.
attestChecks_noFinalizedCheck(sender, id, dayIndex) ==
    LET c == challenges[id]
    IN  IF sender # verifier THEN "NOT_VERIFIER"
        ELSE IF c.user = Zero THEN "NOT_FOUND"
        ELSE IF ~(dayIndex < c.durationDays) THEN "BAD_DAY"
        ELSE IF dayIndex \in c.dayUnlocked THEN "ALREADY_UNLOCKED"
        ELSE IF Overflows(dayIndex * DAY) \/ Overflows(c.startTime + dayIndex * DAY)
             THEN "PANIC_OVERFLOW"
        ELSE IF ~(now >= c.startTime + dayIndex * DAY) THEN "DAY_NOT_STARTED"
        ELSE "OK"

\* Mutation of attestChecks: the onlyVerifier modifier is missing.
attestChecks_noVerifierCheck(sender, id, dayIndex) ==
    LET c == challenges[id]
    IN  IF c.finalized THEN "FINALIZED"
        ELSE IF c.user = Zero THEN "NOT_FOUND"
        ELSE IF ~(dayIndex < c.durationDays) THEN "BAD_DAY"
        ELSE IF dayIndex \in c.dayUnlocked THEN "ALREADY_UNLOCKED"
        ELSE IF Overflows(dayIndex * DAY) \/ Overflows(c.startTime + dayIndex * DAY)
             THEN "PANIC_OVERFLOW"
        ELSE IF ~(now >= c.startTime + dayIndex * DAY) THEN "DAY_NOT_STARTED"
        ELSE "OK"

\* Mutation of attestChecks: a day is accepted only after the day before it.
attestChecks_inOrder(sender, id, dayIndex) ==
    LET c == challenges[id]
    IN  IF sender # verifier THEN "NOT_VERIFIER"
        ELSE IF c.finalized THEN "FINALIZED"
        ELSE IF c.user = Zero THEN "NOT_FOUND"
        ELSE IF ~(dayIndex < c.durationDays) THEN "BAD_DAY"
        ELSE IF dayIndex \in c.dayUnlocked THEN "ALREADY_UNLOCKED"
        ELSE IF dayIndex > 0 /\ (dayIndex - 1) \notin c.dayUnlocked THEN "OUT_OF_ORDER"
        ELSE IF Overflows(dayIndex * DAY) \/ Overflows(c.startTime + dayIndex * DAY)
             THEN "PANIC_OVERFLOW"
        ELSE IF ~(now >= c.startTime + dayIndex * DAY) THEN "DAY_NOT_STARTED"
        ELSE "OK"

\* Mutation of attestChecks: the BAD_DAY require is missing.
attestChecks_noBadDayCheck(sender, id, dayIndex) ==
    LET c == challenges[id]
    IN  IF sender # verifier THEN "NOT_VERIFIER"
        ELSE IF c.finalized THEN "FINALIZED"
        ELSE IF c.user = Zero THEN "NOT_FOUND"
        ELSE IF dayIndex \in c.dayUnlocked THEN "ALREADY_UNLOCKED"
        ELSE IF Overflows(dayIndex * DAY) \/ Overflows(c.startTime + dayIndex * DAY)
             THEN "PANIC_OVERFLOW"
        ELSE IF ~(now >= c.startTime + dayIndex * DAY) THEN "DAY_NOT_STARTED"
        ELSE "OK"

\* Mutation of attestChecks: attestation closes when the period ends.
attestChecks_notAfterEnd(sender, id, dayIndex) ==
    LET c == challenges[id]
    IN  IF sender # verifier THEN "NOT_VERIFIER"
        ELSE IF c.finalized THEN "FINALIZED"
        ELSE IF c.user = Zero THEN "NOT_FOUND"
        ELSE IF ~(dayIndex < c.durationDays) THEN "BAD_DAY"
        ELSE IF dayIndex \in c.dayUnlocked THEN "ALREADY_UNLOCKED"
        ELSE IF Overflows(dayIndex * DAY) \/ Overflows(c.startTime + dayIndex * DAY)
             THEN "PANIC_OVERFLOW"
        ELSE IF ~(now >= c.startTime + dayIndex * DAY) THEN "DAY_NOT_STARTED"
        ELSE IF now >= c.startTime + c.durationDays * DAY THEN "ENDED"
        ELSE "OK"

\* onlyVerifier and the five requires of attestCompletion, in source order.
\* startTime + dayIndex * 1 days is checked arithmetic: leaving the word aborts
\* the call with a panic before the comparison is made.
attestChecks(sender, id, dayIndex) ==
    LET c == challenges[id]
    IN  IF sender # verifier THEN "NOT_VERIFIER"
        ELSE IF c.finalized THEN "FINALIZED"
        ELSE IF c.user = Zero THEN "NOT_FOUND"
        ELSE IF ~(dayIndex < c.durationDays) THEN "BAD_DAY"
        ELSE IF dayIndex \in c.dayUnlocked THEN "ALREADY_UNLOCKED"
        ELSE IF Overflows(dayIndex * DAY) \/ Overflows(c.startTime + dayIndex * DAY)
             THEN "PANIC_OVERFLOW"
        ELSE IF ~(now >= c.startTime + dayIndex * DAY) THEN "DAY_NOT_STARTED"
        ELSE "OK"

\* Mutation of attestEffects: the day is marked but released is not increased.
attestEffects_marksOnly(c, dayIndex) ==
    [c EXCEPT !.dayUnlocked = @ \cup {dayIndex}]

\* Mutation of attestEffects: released grows by two slices.
attestEffects_doubleSlice(c, dayIndex) ==
    [c EXCEPT !.dayUnlocked = @ \cup {dayIndex}, !.released = @ + 2 * c.dailySlice]

\* c.dayUnlocked[dayIndex] = true; c.released += c.dailySlice;
attestEffects(c, dayIndex) ==
    [c EXCEPT !.dayUnlocked = @ \cup {dayIndex}, !.released = @ + c.dailySlice]

attestCompletion(sender, id, dayIndex) ==
    LET reason == attestChecks(sender, id, dayIndex)
        c      == challenges[id]
    IN  IF reason # "OK" THEN Revert("attestCompletion", id, reason)
        ELSE /\ challenges' = [challenges EXCEPT ![id] = attestEffects(c, dayIndex)]
             /\ events' = Emit(<<"DayAttested", id, dayIndex, c.dailySlice>>)
             /\ refused' = NoRefusal
             /\ UNCHANGED <<nextChallengeId, verifier, owner, now, balance,
                            paidToUser, paidToBeneficiary, pending, appVars>>

\* ------------------------------------------------------------------ claim
\* Mutation of claimChecks: the NOT_USER require is missing.
claimChecks_noUserCheck(sender, id) ==
    LET c == challenges[id]
    IN  IF ~(c.released > 0) THEN "NOTHING_TO_CLAIM"
        ELSE "OK"

\* Mutation of claimChecks: a claim is refused once the challenge is finalized.
claimChecks_notAfterFinalize(sender, id) ==
    LET c == challenges[id]
    IN  IF c.user # sender THEN "NOT_USER"
        ELSE IF c.finalized THEN "FINALIZED"
        ELSE IF ~(c.released > 0) THEN "NOTHING_TO_CLAIM"
        ELSE "OK"

\* The two requires of claimUnlocked, in source order.
claimChecks(sender, id) ==
    LET c == challenges[id]
    IN  IF c.user # sender THEN "NOT_USER"
        ELSE IF ~(c.released > 0) THEN "NOTHING_TO_CLAIM"
        ELSE "OK"

\* Mutation of claimable: one daily slice is paid instead of the released balance.
claimable_oneSlice(c) == c.dailySlice

\* uint256 claimable = c.released;
claimable(c) == c.released

\* Mutation of claimEffects: released is not zeroed.
claimEffects_keepsReleased(c) == c

\* c.released = 0; // effects
claimEffects(c) == [c EXCEPT !.released = 0]

\* Mutation of claimTransferFailed: the token's refusal is reported but the
\* zeroing of released is kept.
claimTransferFailed_keepsZero(id, c) ==
    /\ challenges' = [challenges EXCEPT ![id] = c]
    /\ refused' = Outcome("claimUnlocked", id, "TRANSFER_FAIL")
    /\ UNCHANGED <<nextChallengeId, verifier, owner, now, balance, events,
                   paidToUser, paidToBeneficiary, pending, appVars>>

\* require(transfer(msg.sender, claimable), "TRANSFER_FAIL") failing: the call
\* reverts and the zeroing of released with it.
claimTransferFailed(id, c) == TransferRefused("claimUnlocked", id, "TRANSFER_FAIL")

claimUnlocked(sender, id, ok) ==
    LET reason == claimChecks(sender, id)
        amount == claimable(challenges[id])
        c      == claimEffects(challenges[id])
    IN  IF reason # "OK" THEN Revert("claimUnlocked", id, reason)
        ELSE IF ~TransferSucceeds(Vault, amount, ok) THEN claimTransferFailed(id, c)
        ELSE /\ challenges' = [challenges EXCEPT ![id] = c]
             /\ balance' = Moved(Vault, sender, amount)
             /\ paidToUser' = [paidToUser EXCEPT ![id] = @ + amount]
             /\ events' = Emit(<<"Claimed", id, sender, amount>>)
             /\ refused' = NoRefusal
             /\ UNCHANGED <<nextChallengeId, verifier, owner, now, paidToBeneficiary, pending, appVars>>

\* --------------------------------------------------------------- finalize
\* for (i = 0; i < d; i++) if (c.dayUnlocked[i]) total += c.dailySlice;
RECURSIVE sumUnlockedFrom(_, _)
sumUnlockedFrom(c, i) ==
    IF ~(i < c.durationDays) THEN 0
    ELSE (IF i \in c.dayUnlocked THEN c.dailySlice ELSE 0) + sumUnlockedFrom(c, i + 1)

\* Mutation of _sumUnlocked: the loop starts at day 1.
_sumUnlocked_skipsDayZero(c) == sumUnlockedFrom(c, 1)

_sumUnlocked(c) == sumUnlockedFrom(c, 0)

\* Mutation of finalizeChecks: the FINALIZED require is missing.
finalizeChecks_noFinalizedCheck(id) ==
    LET c == challenges[id]
    IN  IF c.user = Zero THEN "NOT_FOUND"
        ELSE IF Overflows(c.durationDays * DAY)
                \/ Overflows(c.startTime + c.durationDays * DAY) THEN "PANIC_OVERFLOW"
        ELSE IF ~(now >= c.startTime + c.durationDays * DAY) THEN "NOT_ENDED"
        ELSE IF _sumUnlocked(c) > c.principal THEN "PANIC_UNDERFLOW"
        ELSE "OK"

\* The three requires of finalize, in source order, then the checked
\* subtraction principal - unlockedTotal.
finalizeChecks(id) ==
    LET c == challenges[id]
    IN  IF c.finalized THEN "FINALIZED"
        ELSE IF c.user = Zero THEN "NOT_FOUND"
        ELSE IF Overflows(c.durationDays * DAY)
                \/ Overflows(c.startTime + c.durationDays * DAY) THEN "PANIC_OVERFLOW"
        ELSE IF ~(now >= c.startTime + c.durationDays * DAY) THEN "NOT_ENDED"
        ELSE IF _sumUnlocked(c) > c.principal THEN "PANIC_UNDERFLOW"
        ELSE "OK"

\* Mutation of finalizeRemainder: what the owner has not claimed yet is
\* subtracted instead of what was unlocked.
finalizeRemainder_lessReleased(c) == c.principal - c.released

\* Mutation of finalizeRemainder: the whole principal is swept, unlocked or not.
finalizeRemainder_wholePrincipal(c) == c.principal

\* uint256 remainder = c.principal - unlockedTotal;
finalizeRemainder(c) == c.principal - _sumUnlocked(c)

\* Mutation of finalizeEffects: the settled record is cleared but for its flag
\* and its penalty.
finalizeEffects_clearsRecord(c) ==
    [ZeroChallenge EXCEPT !.penalized = c.penalized + finalizeRemainder(c),
                          !.finalized = TRUE, !.beneficiary = c.beneficiary]

\* Mutation of finalizeEffects: the remainder is added to penalized but the
\* challenge is left open.
finalizeEffects_keepsOpen(c) ==
    [c EXCEPT !.penalized = @ + finalizeRemainder(c)]

\* c.penalized += remainder; c.finalized = true;
finalizeEffects(c) ==
    [c EXCEPT !.penalized = @ + finalizeRemainder(c), !.finalized = TRUE]

\* Mutation of finalizeTransferFailed: the token's refusal is reported but the
\* flag and the penalized increment are kept.
finalizeTransferFailed_keepsFlag(id, c) ==
    /\ challenges' = [challenges EXCEPT ![id] = c]
    /\ refused' = Outcome("finalize", id, "BENEFICIARY_XFER_FAIL")
    /\ UNCHANGED <<nextChallengeId, verifier, owner, now, balance, events,
                   paidToUser, paidToBeneficiary, pending, appVars>>

\* require(transfer(c.beneficiary, remainder), "BENEFICIARY_XFER_FAIL") failing:
\* the call reverts, the flag and the penalized increment with it.
finalizeTransferFailed(id, c) == TransferRefused("finalize", id, "BENEFICIARY_XFER_FAIL")

\* Mutation of finalize: the remainder is everything the vault holds beyond
\* this challenge's released balance.
finalize_sweepsVault(sender, id, ok) ==
    LET reason    == finalizeChecks(id)
        remainder == balance[Vault] - challenges[id].released
        c         == [challenges[id] EXCEPT !.penalized = @ + remainder, !.finalized = TRUE]
    IN  IF reason # "OK" THEN Revert("finalize", id, reason)
        ELSE IF remainder > 0 /\ ~TransferSucceeds(Vault, remainder, ok)
             THEN finalizeTransferFailed(id, c)
        ELSE /\ challenges' = [challenges EXCEPT ![id] = c]
             /\ balance' = IF remainder > 0 THEN Moved(Vault, c.beneficiary, remainder)
                           ELSE balance
             /\ paidToBeneficiary' =
                    [paidToBeneficiary EXCEPT ![id] = @ + (IF remainder > 0 THEN remainder ELSE 0)]
             /\ events' = Emit(<<"Finalized", id, remainder>>)
             /\ refused' = NoRefusal
             /\ UNCHANGED <<nextChallengeId, verifier, owner, now, paidToUser, pending, appVars>>

\* Mutation of finalize: the transfer is attempted whatever the remainder.
finalize_alwaysTransfers(sender, id, ok) ==
    LET reason    == finalizeChecks(id)
        remainder == finalizeRemainder(challenges[id])
        c         == finalizeEffects(challenges[id])
    IN  IF reason # "OK" THEN Revert("finalize", id, reason)
        ELSE IF ~TransferSucceeds(Vault, remainder, ok)
             THEN finalizeTransferFailed(id, c)
        ELSE /\ challenges' = [challenges EXCEPT ![id] = c]
             /\ balance' = Moved(Vault, c.beneficiary, remainder)
             /\ paidToBeneficiary' = [paidToBeneficiary EXCEPT ![id] = @ + remainder]
             /\ events' = Emit(<<"Finalized", id, remainder>>)
             /\ refused' = NoRefusal
             /\ UNCHANGED <<nextChallengeId, verifier, owner, now, paidToUser, pending, appVars>>

finalize(sender, id, ok) ==
    LET reason    == finalizeChecks(id)
        remainder == finalizeRemainder(challenges[id])
        c         == finalizeEffects(challenges[id])
    IN  IF reason # "OK" THEN Revert("finalize", id, reason)
        ELSE IF remainder > 0 /\ ~TransferSucceeds(Vault, remainder, ok)
             THEN finalizeTransferFailed(id, c)
        ELSE /\ challenges' = [challenges EXCEPT ![id] = c]
             /\ balance' = IF remainder > 0 THEN Moved(Vault, c.beneficiary, remainder)
                           ELSE balance
             /\ paidToBeneficiary' =
                    [paidToBeneficiary EXCEPT ![id] = @ + (IF remainder > 0 THEN remainder ELSE 0)]
             /\ events' = Emit(<<"Finalized", id, remainder>>)
             /\ refused' = NoRefusal
             /\ UNCHANGED <<nextChallengeId, verifier, owner, now, paidToUser, pending, appVars>>

\* ------------------------------------------------------------------- time
\* The block timestamp grows between calls.
Tick ==
    /\ now < MaxNow
    /\ now' = now + 1
    /\ refused' = NoRefusal
    /\ UNCHANGED <<nextChallengeId, challenges, verifier, owner, balance, events,
                   paidToUser, paidToBeneficiary, pending, appVars>>

\* Every call the vault accepts, createChallenge excepted.
Calls ==
    \/ \E s \in Senders, v \in Verifiers : setVerifier(s, v)
    \/ \E s \in Senders, id \in ChallengeIds, d \in DayIndices : attestCompletion(s, id, d)
    \/ \E s \in Senders, id \in ChallengeIds, ok \in BOOLEAN : claimUnlocked(s, id, ok)
    \/ \E s \in Senders, id \in ChallengeIds, ok \in BOOLEAN : finalize(s, id, ok)

Create ==
    \E s \in Users, b \in Beneficiaries, a \in Amounts, st \in StartTimes,
       d \in Durations, ok \in BOOLEAN : createChallenge(s, b, a, st, d, ok)

Next ==
    \/ Calls
    \/ nextChallengeId < MaxChallenges /\ Create
    \/ Tick

Spec == Init /\ [][Next]_vars

\* A finalize on id that goes through, the token willing.
finalizeGoesThrough(id) ==
    \E s \in Senders : finalize(s, id, TRUE) /\ challenges'[id].finalized

\* Spec under fair scheduling: the block timestamp keeps advancing up to
\* MaxNow, and a finalize that stays possible with a willing token is
\* eventually made.
SpecFair ==
    /\ Init /\ [][Next]_vars
    /\ WF_vars(Tick)
    /\ \A id \in ChallengeIds : WF_vars(finalizeGoesThrough(id))

\* Spec with one more challenge: two challenges share the vault's balance.
NextTwo ==
    \/ Calls
    \/ nextChallengeId < MaxChallenges + 1 /\ Create
    \/ Tick

SpecTwo == Init /\ [][NextTwo]_vars

\* ---------------------------------------------------------------- nesting
\* The token is foreign code: while the vault waits in transfer(...), the token
\* (or a hook of the recipient) may call any function of the vault.  A call of
\* claimUnlocked whose transfer returns true is therefore also taken in two
\* steps: up to the call of transfer, and from its return.  A call whose
\* transfer returns false reverts with everything nested into it: as a step
\* it is claimTransferFailed, whatever was nested.

\* Mutation of claimEffectsAt: released is zeroed after the transfer has
\* returned instead of before it is called.
claimEffectsAt_afterTransfer(c, stage) ==
    IF stage = "after" THEN claimEffects(c) ELSE c

\* The writes of claimUnlocked to the record, before the call of transfer
\* (c.released = 0) and after its return (none).
claimEffectsAt(c, stage) ==
    IF stage = "before" THEN claimEffects(c) ELSE c

\* claimUnlocked up to the call of transfer: the requires, c.released = 0,
\* then control passes to the token.  The token moves the amount before
\* (movesFirst) or after it calls back.
claimUnlockedEnter(sender, id, movesFirst) ==
    LET amount == claimable(challenges[id])
        moved  == movesFirst /\ TransferSucceeds(Vault, amount, TRUE)
    IN  /\ Len(pending) < MaxDepth
        /\ claimChecks(sender, id) = "OK"
        /\ pending' = <<[op |-> "claimUnlocked", id |-> id, sender |-> sender,
                         amount |-> amount, moved |-> moved]>> \o pending
        /\ challenges' = [challenges EXCEPT ![id] = claimEffectsAt(@, "before")]
        /\ balance' = IF moved THEN Moved(Vault, sender, amount) ELSE balance
        /\ paidToUser' = IF moved THEN [paidToUser EXCEPT ![id] = @ + amount]
                         ELSE paidToUser
        /\ refused' = NoRefusal
        /\ UNCHANGED <<nextChallengeId, verifier, owner, now, events, paidToBeneficiary, appVars>>

\* The innermost transfer returns true: the amount has moved, Claimed is
\* emitted and the call ends.
claimUnlockedReturn ==
    /\ pending # <<>>
    /\ LET f == Head(pending)
       IN  /\ f.op = "claimUnlocked"
           /\ f.moved \/ TransferSucceeds(Vault, f.amount, TRUE)
           /\ pending' = Tail(pending)
           /\ challenges' = [challenges EXCEPT ![f.id] = claimEffectsAt(@, "after")]
           /\ balance' = IF f.moved THEN balance ELSE Moved(Vault, f.sender, f.amount)
           /\ paidToUser' = IF f.moved THEN paidToUser
                            ELSE [paidToUser EXCEPT ![f.id] = @ + f.amount]
           /\ events' = Emit(<<"Claimed", f.id, f.sender, f.amount>>)
           /\ refused' = NoRefusal
           /\ UNCHANGED <<nextChallengeId, verifier, owner, now, paidToBeneficiary, appVars>>

\* Spec with the token calling back: between the two steps of a claimUnlocked
\* any call may be made; the block timestamp stands still within a transaction.
NextNested ==
    \/ Calls
    \/ nextChallengeId < MaxChallenges /\ Create
    \/ pending = <<>> /\ Tick
    \/ \E s \in Senders, id \in ChallengeIds, first \in BOOLEAN :
          claimUnlockedEnter(s, id, first)
    \/ claimUnlockedReturn

SpecNested == Init /\ [][NextNested]_vars

\* createChallenge up to the call of transferFrom: the requires, the counter,
\* the ten writes to the record, then control passes to the token.  The token
\* moves the amount before (movesFirst) or after it calls back.
createChallengeEnter(sender, beneficiary, amount, startTime, durationDays, movesFirst) ==
    LET id    == nextChallengeId + 1
        c     == createRecord(sender, beneficiary, amount, startTime, durationDays)
        moved == movesFirst
    IN  /\ Len(pending) < MaxDepth
        /\ createChecks(beneficiary, amount, startTime, durationDays) = "OK"
        /\ TransferSucceeds(sender, amount, TRUE)
        /\ pending' = <<[op |-> "createChallenge", id |-> id, sender |-> sender,
                         amount |-> amount, moved |-> moved]>> \o pending
        /\ nextChallengeId' = id
        /\ challenges' = [challenges EXCEPT ![id] = c]
        /\ balance' = IF moved THEN Moved(sender, Vault, amount) ELSE balance
        /\ refused' = NoRefusal
        /\ UNCHANGED <<verifier, owner, now, events, paidToUser, paidToBeneficiary, appVars>>

\* The innermost transferFrom returns true: the amount has moved,
\* ChallengeCreated is emitted and the call ends.
createChallengeReturn ==
    /\ pending # <<>>
    /\ LET f == Head(pending)
           c == challenges[f.id]
       IN  /\ f.op = "createChallenge"
           /\ f.moved \/ TransferSucceeds(f.sender, f.amount, TRUE)
           /\ pending' = Tail(pending)
           /\ balance' = IF f.moved THEN balance ELSE Moved(f.sender, Vault, f.amount)
           /\ events' = Emit(<<"ChallengeCreated", f.id, f.sender, c.beneficiary,
                               f.amount, c.startTime, c.durationDays>>)
           /\ refused' = NoRefusal
           /\ UNCHANGED <<nextChallengeId, challenges, verifier, owner, now,
                          paidToUser, paidToBeneficiary, appVars>>

\* Mutation of finalizeEffectsAt: penalized and finalized are written after
\* the transfer has returned instead of before it is called.
finalizeEffectsAt_afterTransfer(c, stage) ==
    IF stage = "after" THEN finalizeEffects(c) ELSE c

\* The writes of finalize to the record, before the call of transfer
\* (c.penalized += remainder; c.finalized = true) and after its return (none).
finalizeEffectsAt(c, stage) ==
    IF stage = "before" THEN finalizeEffects(c) ELSE c

\* finalize with a positive remainder up to the call of transfer: the
\* requires, the remainder, the two writes, then control passes to the token.
\* Nothing after the transfer reads msg.sender: the frame does not keep it.
finalizeEnter(sender, id, movesFirst) ==
    LET remainder == finalizeRemainder(challenges[id])
        moved     == movesFirst
    IN  /\ Len(pending) < MaxDepth
        /\ finalizeChecks(id) = "OK"
        /\ remainder > 0
        /\ TransferSucceeds(Vault, remainder, TRUE)
        /\ pending' = <<[op |-> "finalize", id |-> id, amount |-> remainder,
                         moved |-> moved]>> \o pending
        /\ challenges' = [challenges EXCEPT ![id] = finalizeEffectsAt(@, "before")]
        /\ balance' = IF moved THEN Moved(Vault, challenges[id].beneficiary, remainder)
                      ELSE balance
        /\ paidToBeneficiary' = IF moved THEN [paidToBeneficiary EXCEPT ![id] = @ + remainder]
                                ELSE paidToBeneficiary
        /\ refused' = NoRefusal
        /\ UNCHANGED <<nextChallengeId, verifier, owner, now, events, paidToUser, appVars>>

\* The innermost transfer to the beneficiary returns true: the remainder has
\* moved, Finalized is emitted and the call ends.
finalizeReturn ==
    /\ pending # <<>>
    /\ LET f == Head(pending)
       IN  /\ f.op = "finalize"
           /\ f.moved \/ TransferSucceeds(Vault, f.amount, TRUE)
           /\ pending' = Tail(pending)
           /\ challenges' = [challenges EXCEPT ![f.id] = finalizeEffectsAt(@, "after")]
           /\ balance' = IF f.moved THEN balance
                         ELSE Moved(Vault, challenges[f.id].beneficiary, f.amount)
           /\ paidToBeneficiary' = IF f.moved THEN paidToBeneficiary
                                   ELSE [paidToBeneficiary EXCEPT ![f.id] = @ + f.amount]
           /\ events' = Emit(<<"Finalized", f.id, f.amount>>)
           /\ refused' = NoRefusal
           /\ UNCHANGED <<nextChallengeId, verifier, owner, now, paidToUser, appVars>>

\* Spec with the token calling back from the transferFrom of createChallenge.
NextDeposit ==
    \/ Calls
    \/ nextChallengeId < MaxChallenges /\ Create
    \/ pending = <<>> /\ Tick
    \/ /\ nextChallengeId < MaxChallenges
       /\ \E s \in Users, b \in Beneficiaries, a \in Amounts, st \in StartTimes,
             d \in Durations, first \in BOOLEAN : createChallengeEnter(s, b, a, st, d, first)
    \/ createChallengeReturn

SpecDeposit == Init /\ [][NextDeposit]_vars

\* Spec with the token calling back from the transfer of finalize.
NextSweep ==
    \/ Calls
    \/ nextChallengeId < MaxChallenges /\ Create
    \/ pending = <<>> /\ Tick
    \/ \E s \in Senders, id \in ChallengeIds, first \in BOOLEAN : finalizeEnter(s, id, first)
    \/ finalizeReturn

SpecSweep == Init /\ [][NextSweep]_vars

\* ------------------------------------------------------------ daily claim
\* new Date().toISOString().slice(0, 10) at instant t: the UTC calendar day.
ymd(t) == t \div MS_PER_DAY

\* todayYmd(): the calendar day of the clock as it stands.
todayYmd == ymd(clock)

\* const yesterday = new Date(); yesterday.setDate(yesterday.getDate() - 1);
\* yesterday.toISOString().slice(0, 10): the clock is read again, one day is
\* taken off (the server's time zone is UTC) and the result is formatted.
ymdYesterday == ymd(clock - MS_PER_DAY)

\* nextStreak and nextState of claimDaily.
nextClaimState(state, today, yesterday) ==
    [lastClaimDate |-> {today},
     streak        |-> IF state.lastClaimDate = {yesterday} THEN state.streak + 1 ELSE 1,
     points        |-> state.points + 10]

\* const state = await getClaimState(userId);
claimDailyGet ==
    /\ claimCall.pc = "idle"
    /\ claimCall' = [claimCall EXCEPT !.pc = "got", !.state = claimStore]
    /\ UNCHANGED <<clock, claimStore, todoStore, addTodoCalls, vaultVars>>

\* const today = todayYmd(); if (state.lastClaimDate === today) return state;
claimDailyToday ==
    /\ claimCall.pc = "got"
    /\ claimCall' = IF claimCall.state.lastClaimDate = {todayYmd}
                    THEN [claimCall EXCEPT !.pc = "idle", !.today = todayYmd,
                                           !.result = claimCall.state]
                    ELSE [claimCall EXCEPT !.pc = "fresh", !.today = todayYmd]
    /\ UNCHANGED <<clock, claimStore, todoStore, addTodoCalls, vaultVars>>

\* The rest of claimDaily: yesterday, nextStreak, nextState,
\* await setClaimState(userId, nextState); return nextState;
claimDailySet ==
    /\ claimCall.pc = "fresh"
    /\ LET nextState == nextClaimState(claimCall.state, claimCall.today, ymdYesterday)
       IN  /\ claimStore' = nextState
           /\ claimCall' = [claimCall EXCEPT !.pc = "idle", !.result = nextState]
    /\ UNCHANGED <<clock, todoStore, addTodoCalls, vaultVars>>

\* The clock advances, between calls and between the statements of a call.
ClockTick ==
    /\ clock < MaxClock
    /\ clock' = clock + 1
    /\ UNCHANGED <<claimStore, claimCall, todoStore, addTodoCalls, vaultVars>>

NextClaim ==
    \/ claimDailyGet
    \/ claimDailyToday
    \/ claimDailySet
    \/ ClockTick

SpecClaim == Init /\ [][NextClaim]_vars

\* ------------------------------------------------------------------ todos
\* const todos = await getTodos(userId);
addTodoGet(r) ==
    /\ addTodoCalls[r].pc = "idle"
    /\ addTodoCalls[r].calls < MaxCalls
    /\ addTodoCalls' = [addTodoCalls EXCEPT ![r].pc = "read", ![r].todos = todoStore]
    /\ UNCHANGED <<clock, claimStore, claimCall, todoStore, vaultVars>>

\* newItem (its id is a fresh UUID); const next = [...todos, newItem];
\* await setTodos(userId, next); return newItem;
addTodoSet(r) ==
    /\ addTodoCalls[r].pc = "read"
    /\ LET newItem == <<r, addTodoCalls[r].calls + 1>>
           next    == Append(addTodoCalls[r].todos, newItem)
       IN  /\ todoStore' = next
           /\ addTodoCalls' = [addTodoCalls EXCEPT ![r].pc = "idle",
                                                   ![r].calls = @ + 1,
                                                   ![r].returned = @ \cup {newItem}]
    /\ UNCHANGED <<clock, claimStore, claimCall, vaultVars>>

\* Two request handlers run addTodo for the same user; they interleave at
\* the awaits.
NextTodos ==
    \/ \E r \in Requests : addTodoGet(r)
    \/ \E r \in Requests : addTodoSet(r)

SpecTodos == Init /\ [][NextTodos]_vars

\* ================================================================ properties
Exists(id)      == challenges[id].user # Zero
NumUnlocked(id) == Cardinality(challenges[id].dayUnlocked)
EndTime(id)     == challenges[id].startTime + challenges[id].durationDays * DAY

\* Everything a call can write, the record of a refusal and the clock excepted.
Ledger == <<events, verifier, nextChallengeId, challenges, owner, balance,
            paidToUser, paidToBeneficiary>>

\* How many events of one kind the log holds for one challenge.
EventsOf(kind, id) == {e \in BagToSet(events) : e[1] = kind /\ e[2] = id}
EventCount(kind, id) == BagCardinality([e \in EventsOf(kind, id) |-> events[e]])

\* The step changes the state: a rejected call and a repeated refusal do not.
Changed == vars' # vars

\* The step is a claimUnlocked / finalize on `id` that went through.
ClaimSucceeds(id) ==
    /\ refused' = NoRefusal
    /\ Ledger' # Ledger
    /\ \E s \in Senders, ok \in BOOLEAN : claimUnlocked(s, id, ok)

FinalizeSucceeds(id) ==
    /\ refused' = NoRefusal
    /\ Ledger' # Ledger
    /\ \E s \in Senders, ok \in BOOLEAN : finalize(s, id, ok)

\* ------------------------------------------------------------------------ C1
\* C1: once finalize has succeeded on a challenge, penalized + dailySlice *
\* |unlockedDays| = principal, and paid to the owner + released + paid to the
\* beneficiary = principal, in that state and in every later one.
C1_ConservationAfterFinalize ==
    \A id \in ChallengeIds :
        challenges[id].finalized =>
            /\ challenges[id].penalized + challenges[id].dailySlice * NumUnlocked(id)
                  = challenges[id].principal
            /\ paidToUser[id] + challenges[id].released + paidToBeneficiary[id]
                  = challenges[id].principal

\* A finalized challenge with an attested day and a swept remainder, whose
\* owner claimed: the Claimed event is in the log and nothing is owed.
C1_Witness ==
    \E id \in ChallengeIds :
        /\ challenges[id].finalized
        /\ NumUnlocked(id) > 0
        /\ challenges[id].dailySlice > 0
        /\ challenges[id].penalized > 0
        /\ paidToUser[id] > 0
        /\ challenges[id].released = 0

\* ------------------------------------------------------------------------ C2
\* C2: for every challenge, in every reachable state, paid to the owner + paid
\* to the beneficiary + released never exceeds principal.
C2_NeverExceedsPrincipal ==
    \A id \in ChallengeIds :
        paidToUser[id] + paidToBeneficiary[id] + challenges[id].released
            <= challenges[id].principal

\* A challenge that has paid its owner, paid its beneficiary and still owes a
\* released slice.
C2_Witness ==
    \E id \in ChallengeIds :
        /\ paidToUser[id] > 0
        /\ paidToBeneficiary[id] > 0
        /\ challenges[id].released > 0

\* ------------------------------------------------------------------------ C3
\* C3: a successful claimUnlocked leaves released = 0 and moves exactly the
\* pre-call released amount from the vault to the owner; no other balance
\* changes.
C3_ClaimPaysReleased ==
    [][Changed => \A id \in ChallengeIds :
          ClaimSucceeds(id) =>
              LET c == challenges[id]
              IN  /\ c.released > 0
                  /\ challenges'[id].released = 0
                  /\ balance'[c.user] = balance[c.user] + c.released
                  /\ balance'[Vault] = balance[Vault] - c.released
                  /\ \A h \in Holders \ {c.user, Vault} : balance'[h] = balance[h]
                  /\ paidToUser'[id] = paidToUser[id] + c.released
                  /\ events' = events (+) SetToBag({<<"Claimed", id, c.user, c.released>>})
      ]_vars

\* A claim of two slices at once has succeeded: the log holds its event, the
\* owner holds the tokens and nothing is owed.
C3_Witness ==
    \E id \in ChallengeIds :
        /\ challenges[id].dailySlice > 0
        /\ CopiesIn(<<"Claimed", id, challenges[id].user, 2 * challenges[id].dailySlice>>,
                    events) = 1
        /\ challenges[id].released = 0
        /\ paidToUser[id] = 2 * challenges[id].dailySlice

\* ------------------------------------------------------------------------ C4
\* An immediate retry by the owner with a willing token passes every check.
ClaimRetrySucceeds(id) ==
    /\ claimChecks(challenges[id].user, id) = "OK"
    /\ TransferSucceeds(Vault, claimable(challenges[id]), TRUE)

\* C4: a claimUnlocked whose transfer is refused ends in TRANSFER_FAIL and
\* leaves the whole ledger, released included, as before the call; a retry
\* with a willing token then succeeds, and a successful retry pays the owner
\* exactly that released amount, once.
C4_FailedClaimRestores ==
    [][Changed => \A id \in ChallengeIds :
          /\ \A s \in Senders, ok \in BOOLEAN :
                (/\ claimChecks(s, id) = "OK"
                 /\ ~TransferSucceeds(Vault, challenges[id].released, ok)
                 /\ claimUnlocked(s, id, ok)) =>
                    /\ refused' = Outcome("claimUnlocked", id, "TRANSFER_FAIL")
                    /\ UNCHANGED Ledger
                    /\ challenges'[id].released = challenges[id].released
                    /\ challenges[id].released > 0
                    /\ ClaimRetrySucceeds(id)
          /\ (refused = Outcome("claimUnlocked", id, "TRANSFER_FAIL") /\ ClaimSucceeds(id)) =>
                /\ paidToUser'[id] = paidToUser[id] + challenges[id].released
                /\ challenges'[id].released = 0
                /\ paidToUser'[id] = challenges[id].dailySlice * NumUnlocked(id)
      ]_vars

\* A claim of everything released so far has just been refused by the token,
\* and the released amount is still owed.
C4_Witness ==
    \E id \in ChallengeIds :
        /\ refused = Outcome("claimUnlocked", id, "TRANSFER_FAIL")
        /\ challenges[id].released > 0
        /\ paidToUser[id] = 0

\* ------------------------------------------------------------------------ C5
\* An immediate retry with a willing token passes every check.
FinalizeRetrySucceeds(id) ==
    /\ finalizeChecks(id) = "OK"
    /\ TransferSucceeds(Vault, finalizeRemainder(challenges[id]), TRUE)

\* C5: a finalize whose transfer to the beneficiary is refused ends in
\* BENEFICIARY_XFER_FAIL, leaves finalized = false, penalized and the rest of
\* the ledger as before the call; a retry with a willing token then succeeds,
\* and a successful retry sweeps the same remainder.
C5_FailedFinalizeRestores ==
    [][Changed => \A id \in ChallengeIds :
          /\ \A s \in Senders, ok \in BOOLEAN :
                (/\ finalizeChecks(id) = "OK"
                 /\ finalizeRemainder(challenges[id]) > 0
                 /\ ~TransferSucceeds(Vault, finalizeRemainder(challenges[id]), ok)
                 /\ finalize(s, id, ok)) =>
                    /\ refused' = Outcome("finalize", id, "BENEFICIARY_XFER_FAIL")
                    /\ UNCHANGED Ledger
                    /\ ~challenges'[id].finalized
                    /\ challenges'[id].penalized = 0
                    /\ FinalizeRetrySucceeds(id)
          /\ (refused = Outcome("finalize", id, "BENEFICIARY_XFER_FAIL")
                /\ FinalizeSucceeds(id)) =>
                /\ challenges'[id].finalized
                /\ challenges'[id].penalized = finalizeRemainder(challenges[id])
                /\ paidToBeneficiary'[id] = finalizeRemainder(challenges[id])
      ]_vars

\* A finalize has just been refused by the token after the period ended.
C5_Witness ==
    \E id \in ChallengeIds :
        /\ refused = Outcome("finalize", id, "BENEFICIARY_XFER_FAIL")
        /\ ~challenges[id].finalized
        /\ now >= EndTime(id)
        /\ NumUnlocked(id) > 0

\* ------------------------------------------------------------------------ C6
\* C6: a createChallenge whose pull is refused ends in TRANSFER_FROM_FAIL and
\* leaves the id counter, every record and the rest of the ledger as before
\* the call: in no state can such a call end otherwise, and no record exists
\* under an id that was not handed out.
C6_FailedCreateLeavesNothing ==
    [](
        /\ \A b \in Beneficiaries, a \in Amounts, st \in StartTimes, d \in Durations :
              createChecks(b, a, st, d) = "OK" =>
                  \A s \in Users, ok \in BOOLEAN :
                      ~TransferSucceeds(s, a, ok) =>
                          /\ ENABLED createChallenge(s, b, a, st, d, ok)
                          /\ ~ENABLED (/\ createChallenge(s, b, a, st, d, ok)
                                       /\ ~(/\ refused' = Outcome("createChallenge",
                                                                  nextChallengeId + 1,
                                                                  "TRANSFER_FROM_FAIL")
                                            /\ UNCHANGED Ledger
                                            /\ challenges' = challenges
                                            /\ nextChallengeId' = nextChallengeId))
        /\ \A i \in ChallengeIds : i > nextChallengeId => challenges[i] = ZeroChallenge
      )

\* A pull has just been refused by the token although the caller holds enough
\* tokens for a deposit; no record was left behind.
C6_Witness ==
    \E id \in ChallengeIds :
        /\ refused = Outcome("createChallenge", id, "TRANSFER_FROM_FAIL")
        /\ nextChallengeId = id - 1
        /\ ~Exists(id)
        /\ balance["alice"] > 0

\* ------------------------------------------------------------------------ C7
\* C7: finalize succeeds at most once per challenge: on a finalized challenge
\* every finalize, by any caller at any time, ends in FINALIZED; the log holds
\* at most one Finalized event per challenge and the beneficiary has been paid
\* exactly the one remainder.
C7_FinalizeAtMostOnce ==
    \A id \in ChallengeIds :
        /\ EventCount("Finalized", id) = (IF challenges[id].finalized THEN 1 ELSE 0)
        /\ paidToBeneficiary[id] = challenges[id].penalized
        /\ challenges[id].finalized => finalizeChecks(id) = "FINALIZED"

\* A finalized challenge whose remainder was paid; the period is over, so a
\* second finalize would pass every other check.
C7_Witness ==
    \E id \in ChallengeIds :
        /\ challenges[id].finalized
        /\ paidToBeneficiary[id] > 0
        /\ EventCount("Finalized", id) = 1
        /\ now > EndTime(id)

\* ------------------------------------------------------------------------ C8
\* C8 as stated: once day d of a challenge is unlocked, every later
\* attestCompletion(id, d) by the attester ends in ALREADY_UNLOCKED.
C8_AsStated ==
    \A id \in ChallengeIds : \A d \in challenges[id].dayUnlocked :
        attestChecks(verifier, id, d) = "ALREADY_UNLOCKED"

\* C8, amended: once day d of a challenge is unlocked, every later
\* attestCompletion(id, d) by the attester fails: with ALREADY_UNLOCKED while
\* the challenge is not finalized, with FINALIZED once it is.  The log holds
\* exactly one DayAttested event per unlocked day and none for any other day,
\* so released has grown by dailySlice at most once per day index.
C8_NoDayAttestedTwice ==
    \A id \in ChallengeIds :
        /\ \A d \in challenges[id].dayUnlocked :
              attestChecks(verifier, id, d) =
                  (IF challenges[id].finalized THEN "FINALIZED" ELSE "ALREADY_UNLOCKED")
        /\ \A d \in DayIndices :
              CopiesIn(<<"DayAttested", id, d, challenges[id].dailySlice>>, events) =
                  (IF d \in challenges[id].dayUnlocked THEN 1 ELSE 0)
        /\ EventCount("DayAttested", id) = NumUnlocked(id)
        /\ paidToUser[id] + challenges[id].released
              <= challenges[id].dailySlice * NumUnlocked(id)

\* A live challenge with an unlocked day, some time after that day's start:
\* a repeated attestation of it would pass every other check.
C8_Witness ==
    \E id \in ChallengeIds : \E d \in challenges[id].dayUnlocked :
        /\ ~challenges[id].finalized
        /\ challenges[id].released > 0
        /\ now > challenges[id].startTime + d * DAY
        /\ attestChecks(verifier, id, d) = "ALREADY_UNLOCKED"

\* ------------------------------------------------------------------------ C9
\* The cases C9 is about: an existing, non-finalized challenge and a valid,
\* not yet unlocked day index.
Attestable(id, d) ==
    /\ Exists(id)
    /\ ~challenges[id].finalized
    /\ d < challenges[id].durationDays
    /\ d \notin challenges[id].dayUnlocked

\* C9: for an existing, non-finalized challenge and a valid, not yet unlocked
\* day index, attestCompletion by the attester ends in DAY_NOT_STARTED
\* whenever now < startTime + dayIndex * 1 day, and succeeds from that instant
\* on.
C9_DayGate ==
    \A id \in ChallengeIds, d \in DayIndices :
        Attestable(id, d) =>
            attestChecks(verifier, id, d) =
                (IF now < challenges[id].startTime + d * DAY
                 THEN "DAY_NOT_STARTED" ELSE "OK")

\* What holds of the day gate: the same, for the day indices whose start
\* instant startTime + dayIndex * 1 day fits the word.
C9_DayGateInWord ==
    \A id \in ChallengeIds, d \in DayIndices :
        (Attestable(id, d) /\ ~Overflows(challenges[id].startTime + d * DAY)) =>
            attestChecks(verifier, id, d) =
                (IF now < challenges[id].startTime + d * DAY
                 THEN "DAY_NOT_STARTED" ELSE "OK")

\* ----------------------------------------------------------------------- C10
\* C10: on a finalized challenge every attestCompletion by the attester, for
\* every day index, ends in FINALIZED; no attestation takes effect after the
\* finalization, so unlockedDays and the total ever released stay what the
\* finalization accounted for.
C10_NoAttestAfterFinalize ==
    \A id \in ChallengeIds :
        challenges[id].finalized =>
            /\ \A d \in DayIndices : attestChecks(verifier, id, d) = "FINALIZED"
            /\ challenges[id].dailySlice * NumUnlocked(id)
                  = challenges[id].principal - challenges[id].penalized
            /\ paidToUser[id] + challenges[id].released
                  = challenges[id].dailySlice * NumUnlocked(id)

\* A finalized challenge with a released balance and a never-attested day
\* whose start has passed: but for the finalization the attester could
\* unlock it.
C10_Witness ==
    \E id \in ChallengeIds :
        /\ challenges[id].finalized
        /\ challenges[id].released > 0
        /\ \E d \in DayIndices :
              /\ d < challenges[id].durationDays
              /\ d \notin challenges[id].dayUnlocked
              /\ now >= challenges[id].startTime + d * DAY

\* ----------------------------------------------------------------------- C11
\* C11: attestCompletion succeeds only for the current attester: every other
\* caller, an attester that was rotated out included, is rejected with
\* NOT_VERIFIER for every challenge and day index, and no step that unlocks
\* a day or releases an amount is an attestCompletion by such a caller.
C11_OnlyAttesterAttests ==
    /\ [](\A s \in Senders \ {verifier}, id \in ChallengeIds, d \in DayIndices :
             attestChecks(s, id, d) = "NOT_VERIFIER")
    /\ [][\A id \in ChallengeIds :
             (\/ challenges'[id].dayUnlocked # challenges[id].dayUnlocked
              \/ challenges'[id].released > challenges[id].released) =>
                 \A s \in Senders \ {verifier}, d \in DayIndices :
                     ~attestCompletion(s, id, d)]_vars

\* The attester was rotated: the initial attester "v1" is refused a day that
\* the current attester "v2" may unlock.
C11_Witness ==
    \E id \in ChallengeIds, d \in DayIndices :
        /\ verifier = "v2"
        /\ attestChecks("v2", id, d) = "OK"
        /\ attestChecks("v1", id, d) = "NOT_VERIFIER"
        /\ NumUnlocked(id) > 0

\* ----------------------------------------------------------------------- C12
\* C12: claimUnlocked pays only the challenge's owner: every other caller is
\* rejected with NOT_USER, no step that changes a balance or the released
\* amount of the challenge is a claimUnlocked by such a caller, and every
\* Claimed event in the log names the owner of its challenge.
C12_OnlyOwnerClaims ==
    /\ [](\A id \in ChallengeIds : \A s \in Senders \ {challenges[id].user} :
             claimChecks(s, id) = "NOT_USER")
    /\ [](\A e \in BagToSet(events) :
             e[1] = "Claimed" => e[3] = challenges[e[2]].user)
    /\ [][\A id \in ChallengeIds :
             (\/ balance' # balance
              \/ challenges'[id].released # challenges[id].released) =>
                 \A s \in Senders \ {challenges[id].user}, ok \in BOOLEAN :
                     ~claimUnlocked(s, id, ok)]_vars

\* A challenge with a released balance that its owner may claim and that
\* another user, the attester and the administrator are refused.
C12_Witness ==
    \E id \in ChallengeIds :
        /\ challenges[id].released > 0
        /\ claimChecks(challenges[id].user, id) = "OK"
        /\ \A s \in Senders \ {challenges[id].user} : claimChecks(s, id) = "NOT_USER"
        /\ balance[Vault] >= challenges[id].released

\* ----------------------------------------------------------------------- C13
\* C13: setVerifier changes the attester only when the caller is the
\* administrator: a step that changes the attester is no setVerifier by
\* another caller, it is a setVerifier by the administrator, and the
\* administrator itself never changes.
C13_OnlyAdminSetsVerifier ==
    /\ [](owner = Admin)
    /\ [][verifier' # verifier =>
             /\ \A s \in Senders \ {owner}, v \in Verifiers : ~setVerifier(s, v)
             /\ setVerifier(owner, verifier')]_vars

\* The administrator has replaced the initial attester.
C13_Witness ==
    /\ verifier = "v2"
    /\ owner = Admin
    /\ owner \notin Verifiers

\* ----------------------------------------------------------------------- C14
\* C14: finalize on an existing, non-finalized challenge is rejected with
\* NOT_ENDED whenever now < startTime + durationDays * 1 day and passes every
\* check from that instant on, whoever the caller is.
C14_EndGate ==
    \A id \in ChallengeIds :
        (Exists(id) /\ ~challenges[id].finalized) =>
            finalizeChecks(id) =
                (IF now < EndTime(id) THEN "NOT_ENDED" ELSE "OK")

\* What holds of the end gate: the same, for the challenges whose end instant
\* startTime + durationDays * 1 day fits the word.
C14_EndGateInWord ==
    \A id \in ChallengeIds :
        (Exists(id) /\ ~challenges[id].finalized /\ ~Overflows(EndTime(id))) =>
            finalizeChecks(id) =
                (IF now < EndTime(id) THEN "NOT_ENDED" ELSE "OK")

\* ----------------------------------------------------------------------- C15
\* The preconditions of createChallenge that the arguments violate.
Violations(beneficiary, amount, startTime, durationDays) ==
    {r \in {"BENEFICIARY_ZERO", "AMOUNT_ZERO", "DURATION_ZERO", "START_PAST"} :
        \/ r = "BENEFICIARY_ZERO" /\ beneficiary = Zero
        \/ r = "AMOUNT_ZERO" /\ amount = 0
        \/ r = "DURATION_ZERO" /\ durationDays = 0
        \/ r = "START_PAST" /\ startTime < now}

\* C15: createChallenge with a zero beneficiary, a zero amount, a zero
\* duration or a start time in the past is rejected with the reason of a
\* precondition it violates (and is not rejected by these checks otherwise);
\* no step that hands out an id, adds a record or raises the vault's balance
\* is such a call: every record and every ChallengeCreated event has a
\* non-zero beneficiary, amount and duration, and there are as many events as
\* ids handed out.
C15_InvalidCreateRejected ==
    /\ [](\A b \in Beneficiaries, a \in Amounts, st \in StartTimes, d \in Durations :
             LET r == createChecks(b, a, st, d)
                 V == Violations(b, a, st, d)
             IN  IF V = {} THEN r = "OK" ELSE r \in V)
    /\ [](\A id \in ChallengeIds :
             Exists(id) => /\ challenges[id].beneficiary # Zero
                           /\ challenges[id].principal > 0
                           /\ challenges[id].durationDays > 0
                           /\ id <= nextChallengeId)
    /\ [](\A e \in BagToSet(events) :
             e[1] = "ChallengeCreated" =>
                 /\ e[4] # Zero /\ e[5] > 0 /\ e[7] > 0
                 /\ events[e] = 1
                 /\ e[2] <= nextChallengeId)
    /\ [][(\/ nextChallengeId' # nextChallengeId
            \/ balance'[Vault] > balance[Vault]
            \/ \E id \in ChallengeIds : ~Exists(id) /\ challenges'[id] # challenges[id]) =>
             \A b \in Beneficiaries, a \in Amounts, st \in StartTimes, d \in Durations :
                 createChecks(b, a, st, d) # "OK" =>
                     \A s \in Users, ok \in BOOLEAN : ~createChallenge(s, b, a, st, d, ok)]_vars

\* Nothing was created yet, the caller holds tokens and the clock has passed
\* the near start time: a create with that start time, one without amount,
\* one without duration and one without beneficiary are all rejected.
C15_Witness ==
    /\ nextChallengeId = 0
    /\ events = EmptyBag
    /\ balance["alice"] = MaxAmount
    /\ balance[Vault] = 0
    /\ createChecks("bob", 1, NearStart, 1) = "START_PAST"
    /\ createChecks("bob", 1, FarStart, 0) = "DURATION_ZERO"
    /\ createChecks("bob", 0, FarStart, 1) = "AMOUNT_ZERO"
    /\ createChecks(Zero, 1, FarStart, 1) = "BENEFICIARY_ZERO"

\* ----------------------------------------------------------------------- C16
\* C16: for every created challenge dailySlice = floor(principal /
\* durationDays): dailySlice * durationDays <= principal, and the difference
\* is principal mod durationDays, which is less than durationDays.
C16_DailySliceIsFloor ==
    \A id \in ChallengeIds :
        Exists(id) =>
            LET c == challenges[id]
            IN  /\ c.dailySlice * c.durationDays <= c.principal
                /\ c.principal - c.dailySlice * c.durationDays = c.principal % c.durationDays
                /\ c.principal - c.dailySlice * c.durationDays < c.durationDays
                /\ c.principal < (c.dailySlice + 1) * c.durationDays

\* A created challenge whose principal is not a multiple of its duration.
C16_Witness ==
    \E id \in ChallengeIds :
        /\ Exists(id)
        /\ challenges[id].durationDays > 1
        /\ challenges[id].dailySlice > 0
        /\ challenges[id].principal % challenges[id].durationDays > 0

\* ----------------------------------------------------------------------- C17
\* The record of the spec's example: principal 100 over 7 days, days 0..4
\* attested.
ExampleChallenge ==
    [ZeroChallenge EXCEPT !.user = "alice", !.beneficiary = "bob", !.principal = 100,
                          !.durationDays = 7, !.dailySlice = 100 \div 7,
                          !.dayUnlocked = 0..4, !.released = 5 * (100 \div 7)]

\* C17: a successful finalize pays the beneficiary exactly principal -
\* dailySlice * |unlockedDays|, whatever the owner has or has not claimed,
\* sets penalized to that amount and logs it; nobody else's balance changes.
\* For principal 100, 7 days and 5 days attested the amount is 30.
C17_FinalizePaysRemainder ==
    /\ [](finalizeRemainder(ExampleChallenge) = 30)
    /\ [][Changed =>
             \A id \in ChallengeIds :
                 FinalizeSucceeds(id) =>
                     LET c == challenges[id]
                         r == c.principal - c.dailySlice * NumUnlocked(id)
                     IN  /\ challenges'[id].penalized = r
                         /\ challenges'[id].finalized
                         /\ challenges'[id].released = c.released
                         /\ paidToBeneficiary'[id] = paidToBeneficiary[id] + r
                         /\ balance'[c.beneficiary] = balance[c.beneficiary] + r
                         /\ balance'[Vault] = balance[Vault] - r
                         /\ \A h \in Holders \ {c.beneficiary, Vault} : balance'[h] = balance[h]
                         /\ events' = events (+) SetToBag({<<"Finalized", id, r>>})]_vars

\* A finalized challenge with two attested days, one slice claimed and one
\* still owed, whose remainder went to the beneficiary.
C17_Witness ==
    \E id \in ChallengeIds :
        /\ challenges[id].finalized
        /\ NumUnlocked(id) = 2
        /\ paidToUser[id] > 0
        /\ challenges[id].released > 0
        /\ challenges[id].penalized > 0
        /\ paidToBeneficiary[id]
              = challenges[id].principal - challenges[id].dailySlice * NumUnlocked(id)
        /\ balance[challenges[id].beneficiary] = paidToBeneficiary[id]

\* ----------------------------------------------------------------------- C19
\* C19: a call rejected by a require (a validation, authorization or state
\* error) or by an arithmetic panic leaves every record, the id counter, the
\* attester, every balance and the event log as they were: in no state can
\* such a call change anything of the ledger.
C19_RejectedCallsChangeNothing ==
    [](
        /\ \A s \in Senders \ {owner}, v \in Verifiers :
              ~ENABLED (setVerifier(s, v) /\ Ledger' # Ledger)
        /\ \A s \in Senders, id \in ChallengeIds, d \in DayIndices :
              attestChecks(s, id, d) # "OK" =>
                  ~ENABLED (attestCompletion(s, id, d) /\ Ledger' # Ledger)
        /\ \A id \in ChallengeIds :
              /\ \A s \in Senders :
                    claimChecks(s, id) # "OK" =>
                        \A ok \in BOOLEAN :
                            ~ENABLED (claimUnlocked(s, id, ok) /\ Ledger' # Ledger)
              /\ finalizeChecks(id) # "OK" =>
                    \A s \in Senders, ok \in BOOLEAN :
                        ~ENABLED (finalize(s, id, ok) /\ Ledger' # Ledger)
        /\ \A b \in Beneficiaries, a \in Amounts, st \in StartTimes, d \in Durations :
              createChecks(b, a, st, d) # "OK" =>
                  \A s \in Users, ok \in BOOLEAN :
                      ~ENABLED (createChallenge(s, b, a, st, d, ok) /\ Ledger' # Ledger)
      )

\* A state with a log and a custody balance in which calls are rejected for
\* eight different reasons.
C19_Witness ==
    \E id \in ChallengeIds :
        /\ events # EmptyBag
        /\ balance[Vault] > 0
        /\ finalizeChecks(id) = "NOT_ENDED"
        /\ claimChecks(challenges[id].user, id) = "NOTHING_TO_CLAIM"
        /\ claimChecks(verifier, id) = "NOT_USER"
        /\ attestChecks(challenges[id].user, id, 0) = "NOT_VERIFIER"
        /\ attestChecks(verifier, id, 0) = "ALREADY_UNLOCKED"
        /\ attestChecks(verifier, id, 1) = "DAY_NOT_STARTED"
        /\ attestChecks(verifier, id, challenges[id].durationDays) = "BAD_DAY"
        /\ \E other \in ChallengeIds : attestChecks(verifier, other, 0) = "NOT_FOUND"

\* ----------------------------------------------------------------------- C20
\* The fields of a record that are written at creation only.
Immutable(c) ==
    <<c.user, c.beneficiary, c.principal, c.durationDays, c.dailySlice, c.startTime>>

\* C20: a created challenge's record exists in every later state, also after
\* its finalization, and its owner, beneficiary, principal, durationDays,
\* dailySlice and startTime are the same after every step.
C20_RecordsPersist ==
    [][Changed =>
          \A id \in ChallengeIds :
              Exists(id) =>
                  /\ challenges'[id].user # Zero
                  /\ Immutable(challenges'[id]) = Immutable(challenges[id])
      ]_vars

\* A record that went through every operation: attested, claimed, finalized
\* with a payment to the beneficiary, under a replaced attester.
C20_Witness ==
    \E id \in ChallengeIds :
        /\ Exists(id)
        /\ challenges[id].finalized
        /\ NumUnlocked(id) > 0
        /\ paidToUser[id] > 0
        /\ paidToBeneficiary[id] > 0
        /\ verifier = "v2"
        /\ Immutable(challenges[id]) =
              <<"alice", "bob", MaxAmount, MaxDuration, MaxAmount \div MaxDuration, NearStart>>

\* ----------------------------------------------------------------------- C18
\* What the calls in progress are about to pay for a challenge: the amounts
\* of the pending claims whose transfer has not moved yet.
RECURSIVE AwaitedFrom(_, _)
AwaitedFrom(frames, id) ==
    IF frames = <<>> THEN 0
    ELSE (IF Head(frames).id = id /\ ~Head(frames).moved THEN Head(frames).amount ELSE 0)
         + AwaitedFrom(Tail(frames), id)

Awaited(id) == AwaitedFrom(pending, id)

C21_IdsUniqueAndIncreasing ==
    /\ [](\A id \in ChallengeIds :
            /\ Exists(id) <=> id <= nextChallengeId
            /\ EventCount("ChallengeCreated", id) = IF id <= nextChallengeId THEN 1 ELSE 0
            /\ Exists(id) =>
                  LET c == challenges[id]
                  IN  <<"ChallengeCreated", id, c.user, c.beneficiary, c.principal,
                        c.startTime, c.durationDays>> \in BagToSet(events))
    /\ [][/\ nextChallengeId' \in {nextChallengeId, nextChallengeId + 1}
          /\ \A id \in ChallengeIds :
                /\ Exists(id) => Immutable(challenges'[id]) = Immutable(challenges[id])
                /\ ~Exists(id) /\ Exists(id)' => id = nextChallengeId' /\ id > nextChallengeId]_vars

C21_Witness ==
    /\ nextChallengeId = 2
    /\ Exists(1) /\ Exists(2)
    /\ challenges[1].principal # challenges[2].principal


\* C22: the owner may withdraw at any time. In every state in which a
\* challenge's released balance is positive, whatever the clock says and
\* whether or not the challenge is finalized, claimUnlocked by the owner passes
\* both requires, the vault holds enough tokens for the transfer, and with a
\* willing token the call goes through: released drops to 0 and the owner is
\* paid that amount.
C22_OwnerCanAlwaysClaim ==
    \A id \in ChallengeIds :
        LET c == challenges[id]
        IN  c.released > 0 =>
              /\ claimChecks(c.user, id) = "OK"
              /\ TransferSucceeds(Vault, claimable(c), TRUE)
              /\ ENABLED (/\ claimUnlocked(c.user, id, TRUE)
                          /\ challenges'[id].released = 0
                          /\ paidToUser'[id] = paidToUser[id] + c.released
                          /\ balance'[c.user] = balance[c.user] + c.released)

\* A finalized challenge past its end with a released balance still to claim.
C22_Witness ==
    \E id \in ChallengeIds :
        /\ challenges[id].finalized
        /\ challenges[id].released > 0
        /\ ~Overflows(EndTime(id)) /\ now > EndTime(id)
        /\ claimChecks(challenges[id].user, id) = "OK"


\* ----------------------------------------------------------------------- C23
\* The step is the successful operation that the log entry e describes: e
\* carries the challenge's identifier and the amount the operation moved or
\* recorded.
Logged(e) ==
    LET id == e[2]
        c  == challenges[id]
        d  == challenges'[id]
    IN  CASE e[1] = "ChallengeCreated" ->
               /\ ~Exists(id) /\ id = nextChallengeId'
               /\ e[5] = d.principal
               /\ balance'[Vault] = balance[Vault] + e[5]
          [] e[1] = "DayAttested" ->
               /\ d.dayUnlocked = c.dayUnlocked \cup {e[3]} /\ e[3] \notin c.dayUnlocked
               /\ e[4] = c.dailySlice
               /\ d.released = c.released + e[4]
          [] e[1] = "Claimed" ->
               /\ e[3] = c.user
               /\ e[4] = c.released /\ d.released = 0
               /\ paidToUser'[id] = paidToUser[id] + e[4]
          [] e[1] = "Finalized" ->
               /\ ~c.finalized /\ d.finalized
               /\ e[3] = d.penalized
               /\ paidToBeneficiary'[id] = paidToBeneficiary[id] + e[3]
          [] OTHER -> FALSE

\* C23: the log only grows, by one entry per successful createChallenge,
\* attestCompletion, claimUnlocked and finalize; the entry carries the
\* challenge's identifier and the amount involved (deposit, dailySlice,
\* claimed amount, remainder). A step that appends nothing is none of these
\* operations succeeding, and a call the token refused appends nothing.
C23_OneEntryPerSuccess ==
    [][/\ events \sqsubseteq events'
       /\ refused' # NoRefusal => events' = events
       /\ IF events' = events
          THEN UNCHANGED <<challenges, balance, nextChallengeId, paidToUser, paidToBeneficiary>>
          ELSE \E e \in BagToSet(events') :
                  /\ events' = events (+) SetToBag({e})
                  /\ Logged(e)]_vars

\* All four kinds of entry are in the log of one challenge.
C23_Witness ==
    \E id \in ChallengeIds :
        /\ EventCount("ChallengeCreated", id) = 1
        /\ EventCount("DayAttested", id) = 2
        /\ EventCount("Claimed", id) = 2
        /\ EventCount("Finalized", id) = 1


\* ----------------------------------------------------------------------- C24
\* What a successful attestCompletion(id, d) leaves behind: d joined the
\* unlocked days, released grew by dailySlice, and nothing else moved; no
\* balance, no payment, no other field of the record, no other record.
AttestFrame(id, d) ==
    LET c == challenges[id]
    IN  /\ d \notin c.dayUnlocked
        /\ challenges'[id].dayUnlocked = c.dayUnlocked \cup {d}
        /\ challenges'[id].released = c.released + c.dailySlice
        /\ challenges'[id].penalized = c.penalized
        /\ challenges'[id].finalized = c.finalized
        /\ Immutable(challenges'[id]) = Immutable(c)
        /\ \A i \in ChallengeIds \ {id} : challenges'[i] = challenges[i]
        /\ refused' = NoRefusal
        /\ UNCHANGED <<balance, paidToUser, paidToBeneficiary, verifier, owner,
                       nextChallengeId, now, pending>>

\* C24: whenever attestCompletion(id, d) passes its requires, the call adds d
\* to unlockedDays, increases released by exactly dailySlice and changes
\* nothing else: the token is not called, no balance moves, penalized and
\* finalized keep their values.
C24_AttestChangesOnlyItsDay ==
    \A s \in Senders, id \in ChallengeIds, d \in DayIndices :
        attestChecks(s, id, d) = "OK" =>
            /\ ENABLED (attestCompletion(s, id, d) /\ AttestFrame(id, d))
            /\ ~ENABLED (attestCompletion(s, id, d) /\ ~AttestFrame(id, d))

\* One day was attested, its slice is released and the vault's balance is
\* what was deposited; another attestation is about to succeed.
C24_Witness ==
    \E id \in ChallengeIds, d \in DayIndices :
        /\ attestChecks(verifier, id, d) = "OK"
        /\ EventCount("DayAttested", id) = 1
        /\ challenges[id].released = challenges[id].dailySlice
        /\ balance[Vault] = challenges[id].principal

\* ----------------------------------------------------------------------- C25
\* C25: in every reachable state, what the owner was paid plus what is
\* released and unclaimed equals dailySlice times the number of unlocked
\* days, before finalization and after it.
C25_PaidPlusReleasedIsUnlocked ==
    \A id \in ChallengeIds :
        paidToUser[id] + challenges[id].released
            = challenges[id].dailySlice * NumUnlocked(id)

\* Two days are unlocked, the first was claimed, the second is still
\* released; the challenge is finalized.
C25_Witness ==
    \E id \in ChallengeIds :
        /\ NumUnlocked(id) = 2
        /\ challenges[id].dailySlice > 0
        /\ paidToUser[id] = challenges[id].dailySlice
        /\ challenges[id].released = challenges[id].dailySlice
        /\ challenges[id].finalized


\* ----------------------------------------------------------------------- C26
\* C26: penalized is written exactly once. It is 0 while the challenge is not
\* finalized, also right after a finalize the token refused; the step that
\* sets the finalized flag is the only one that may change it, and from then
\* on it keeps its value and the flag stays set.
C26_PenalizedWrittenOnce ==
    /\ [](\A id \in ChallengeIds :
            /\ ~challenges[id].finalized => challenges[id].penalized = 0
            /\ refused.op = "finalize" =>
                  ~challenges[refused.id].finalized /\ challenges[refused.id].penalized = 0)
    /\ [][\A id \in ChallengeIds :
            /\ challenges[id].finalized =>
                  /\ challenges'[id].finalized
                  /\ challenges'[id].penalized = challenges[id].penalized
            /\ challenges'[id].penalized # challenges[id].penalized =>
                  /\ ~challenges[id].finalized /\ challenges'[id].finalized
                  /\ challenges'[id].penalized = finalizeRemainder(challenges[id])]_vars

\* A finalized challenge with a penalty at the end of the clock, whose owner
\* was paid: the penalty is the one its Finalized entry announced, and a
\* second finalize is rejected.
C26_Witness ==
    \E id \in ChallengeIds :
        /\ challenges[id].finalized
        /\ challenges[id].penalized > 0
        /\ <<"Finalized", id, challenges[id].penalized>> \in BagToSet(events)
        /\ paidToUser[id] > 0
        /\ finalizeChecks(id) = "FINALIZED"
        /\ now = MaxNow


\* ----------------------------------------------------------------------- C27
\* C27: day indices may be attested in any order. For an existing,
\* non-finalized challenge, attestCompletion(id, j) by the attester passes
\* every require and unlocks day j whenever j < durationDays, day j is not
\* unlocked and now >= startTime + j * 1 day, whichever of the days below j
\* are unlocked.
C27_AnyOrder ==
    \A id \in ChallengeIds, j \in DayIndices :
        (Attestable(id, j) /\ now >= challenges[id].startTime + j * DAY) =>
            /\ attestChecks(verifier, id, j) = "OK"
            /\ ENABLED (/\ attestCompletion(verifier, id, j)
                        /\ challenges'[id].dayUnlocked = challenges[id].dayUnlocked \cup {j})

\* Day 1 was attested before day 0, and day 0 can be attested now.
C27_Witness ==
    \E id \in ChallengeIds :
        /\ challenges[id].dayUnlocked = {1}
        /\ Attestable(id, 0)
        /\ attestChecks(verifier, id, 0) = "OK"


\* ----------------------------------------------------------------------- C28
\* What a successful setVerifier(v) leaves behind: v is the attester, and
\* every record, balance, payment, log entry and counter is as before, so the
\* unlocked days are still unlocked and what was released can still be
\* claimed by the owner.
RotationFrame(v) ==
    /\ verifier' = v
    /\ UNCHANGED <<challenges, balance, events, nextChallengeId, owner, now,
                   paidToUser, paidToBeneficiary, pending>>
    /\ \A id \in ChallengeIds :
          /\ challenges'[id].dayUnlocked = challenges[id].dayUnlocked
          /\ challenges[id].released > 0 => ClaimRetrySucceeds(id)'

\* C28: setVerifier by the administrator goes through for every address and
\* changes the attester identity only; every Challenge record is unchanged,
\* so the days the previous attester attested remain unlocked and their
\* released amounts remain claimable.
C28_RotationKeepsRecords ==
    \A v \in Verifiers :
        /\ ENABLED (setVerifier(owner, v) /\ RotationFrame(v))
        /\ ~ENABLED (setVerifier(owner, v) /\ ~RotationFrame(v))

\* The attester was replaced while a day was unlocked and its slice still
\* released: the first attester is now refused, the owner can claim.
C28_Witness ==
    \E id \in ChallengeIds :
        /\ verifier = "v2"
        /\ NumUnlocked(id) > 0
        /\ challenges[id].released > 0
        /\ \A d \in DayIndices : attestChecks("v1", id, d) = "NOT_VERIFIER"
        /\ ClaimRetrySucceeds(id)


\* ----------------------------------------------------------------------- C29
\* C29: attestCompletion with dayIndex >= durationDays never succeeds,
\* whoever calls it, and the attester's call on an existing, non-finalized
\* challenge ends in BAD_DAY, whatever the clock says. So every unlocked day
\* index is below durationDays, there are at most durationDays of them, and
\* isDayUnlocked(id, d) is false for every d >= durationDays.
C29_UnlockedDaysInRange ==
    \A id \in ChallengeIds :
        LET c == challenges[id]
        IN  /\ \A d \in c.dayUnlocked : d < c.durationDays
            /\ NumUnlocked(id) <= c.durationDays
            /\ \A d \in DayIndices :
                  d >= c.durationDays =>
                      /\ ~isDayUnlocked(id, d)
                      /\ \A s \in Senders : attestChecks(s, id, d) # "OK"
                      /\ (Exists(id) /\ ~c.finalized) =>
                             attestChecks(verifier, id, d) = "BAD_DAY"

\* Every day of a two-day challenge is unlocked, the period is over and the
\* challenge is still open: an attestation of day 2 is rejected for its index
\* alone.
C29_Witness ==
    \E id \in ChallengeIds :
        /\ challenges[id].durationDays = 2
        /\ isDayUnlocked(id, 0) /\ isDayUnlocked(id, 1)
        /\ ~challenges[id].finalized
        /\ now >= challenges[id].startTime + 2 * DAY
        /\ attestChecks(verifier, id, 2) = "BAD_DAY"


\* ----------------------------------------------------------------------- C30
\* What a finalize with nothing to sweep leaves behind: the flag is set,
\* penalized is 0, no token moved and no refusal was recorded.
NothingSwept(id) ==
    /\ challenges'[id] = [challenges[id] EXCEPT !.finalized = TRUE]
    /\ challenges'[id].penalized = 0
    /\ events' = events (+) SetToBag({<<"Finalized", id, 0>>})
    /\ refused' = NoRefusal
    /\ UNCHANGED <<balance, paidToUser, paidToBeneficiary>>

\* C30: finalize calls the token only when the remainder is positive. When
\* finalize passes its requires and the remainder is 0 (every day attested,
\* principal divisible by durationDays), the call succeeds for every caller
\* whether the token would accept a transfer or refuse it: no balance
\* changes, penalized stays 0 and finalized becomes true.
C30_ZeroRemainderNeedsNoTransfer ==
    \A id \in ChallengeIds :
        (finalizeChecks(id) = "OK" /\ finalizeRemainder(challenges[id]) = 0) =>
            \A s \in Senders, ok \in BOOLEAN :
                /\ ENABLED (finalize(s, id, ok) /\ NothingSwept(id))
                /\ ~ENABLED (finalize(s, id, ok) /\ ~NothingSwept(id))

\* A challenge whose every day was attested and whose principal its duration
\* divides was finalized: nothing went to the beneficiary, and what the vault
\* holds is the released balance the owner has yet to claim.
C30_Witness ==
    \E id \in ChallengeIds :
        /\ challenges[id].finalized
        /\ challenges[id].penalized = 0
        /\ NumUnlocked(id) = challenges[id].durationDays
        /\ challenges[id].dailySlice * challenges[id].durationDays = challenges[id].principal
        /\ <<"Finalized", id, 0>> \in BagToSet(events)
        /\ paidToBeneficiary[id] = 0
        /\ balance[Vault] = challenges[id].released
        /\ challenges[id].released > 0


\* ----------------------------------------------------------------------- C31
\* What an operation addressed to challenge a leaves of every other
\* challenge: its record and what it has paid are as before, and if the
\* owner's claim or a finalize on it would have gone through with a willing
\* token before the operation, it still would after it.
OthersUntouched(a) ==
    \A b \in ChallengeIds \ {a} :
        /\ challenges'[b] = challenges[b]
        /\ paidToUser'[b] = paidToUser[b]
        /\ paidToBeneficiary'[b] = paidToBeneficiary[b]
        /\ ClaimRetrySucceeds(b) => ClaimRetrySucceeds(b)'
        /\ FinalizeRetrySucceeds(b) => FinalizeRetrySucceeds(b)'

\* C31: challenges are independent. No attestCompletion, claimUnlocked or
\* finalize addressed to one challenge, accepted, rejected or refused by the
\* token, changes the record of another challenge, what was paid for it, or
\* whether its released balance and its remainder can be paid out.
C31_ChallengesAreIndependent ==
    \A a \in ChallengeIds, s \in Senders :
        /\ \A d \in DayIndices : ~ENABLED (attestCompletion(s, a, d) /\ ~OthersUntouched(a))
        /\ \A ok \in BOOLEAN :
              /\ ~ENABLED (claimUnlocked(s, a, ok) /\ ~OthersUntouched(a))
              /\ ~ENABLED (finalize(s, a, ok) /\ ~OthersUntouched(a))

\* Two challenges: the first is finalized, has swept a remainder and paid its
\* owner; the second is open with a released balance the vault still holds.
C31_Witness ==
    /\ Exists(1) /\ Exists(2)
    /\ challenges[1].finalized /\ paidToBeneficiary[1] > 0 /\ paidToUser[1] > 0
    /\ ~challenges[2].finalized /\ challenges[2].released > 0
    /\ ClaimRetrySucceeds(2)
    /\ balance[Vault] = challenges[2].principal


\* ----------------------------------------------------------------------- C33
\* What the vault holds for challenge id: its principal less what was paid to
\* its owner and to its beneficiary.
HeldFor(id) == challenges[id].principal - paidToUser[id] - paidToBeneficiary[id]

\* What challenge id may still pay out: its released balance, and the
\* principal not unlocked if it was not swept yet.
OwedBy(id) ==
    challenges[id].released +
        (IF challenges[id].finalized THEN 0 ELSE finalizeRemainder(challenges[id]))

RECURSIVE SumHeld(_)
SumHeld(ids) ==
    IF ids = {} THEN 0
    ELSE LET id == CHOOSE i \in ids : TRUE IN HeldFor(id) + SumHeld(ids \ {id})

RECURSIVE SumOwed(_)
SumOwed(ids) ==
    IF ids = {} THEN 0
    ELSE LET id == CHOOSE i \in ids : TRUE IN OwedBy(id) + SumOwed(ids \ {id})

Pulling == {pending[i].id : i \in {j \in 1..Len(pending) : pending[j].op = "createChallenge"}}

\* C32: while the transferFrom of a createChallenge is in progress no record
\* is visible under the new identifier: getChallenge returns the empty record
\* and attestCompletion, claimUnlocked and finalize on it are rejected as for
\* a challenge that does not exist.
C32_NoRecordWhilePulling ==
    \A id \in Pulling :
        /\ getChallenge(id) = <<Zero, Zero, 0, 0, 0, 0, 0, 0, FALSE>>
        /\ \A d \in DayIndices : attestChecks(verifier, id, d) = "NOT_FOUND"
        /\ \A s \in Senders : claimChecks(s, id) = "NOT_USER"
        /\ finalizeChecks(id) = "NOT_FOUND"


\* ----------------------------------------------------------------------- C36
\* The calls of finalize on id that are waiting for the token.
Sweeps(id) == {i \in 1..Len(pending) : pending[i].op = "finalize" /\ pending[i].id = id}

\* C36: finalize writes penalized and finalized before it calls the token.
\* While its transfer is in progress a finalize on the same challenge and an
\* attestCompletion by the attester, for every day index, are rejected with
\* FINALIZED; at most one finalize per challenge is waiting; what the
\* beneficiary was paid plus what is being paid is the one remainder recorded
\* in penalized, announced at most once; and the unlocked days are those the
\* remainder was computed from.
C36_NestedFinalizeRejected ==
    \A id \in ChallengeIds :
        LET c == challenges[id]
        IN  /\ Cardinality(Sweeps(id)) <= 1
            /\ \A i \in Sweeps(id) :
                  /\ c.finalized
                  /\ pending[i].amount = c.penalized
                  /\ finalizeChecks(id) = "FINALIZED"
                  /\ \A d \in DayIndices : attestChecks(verifier, id, d) = "FINALIZED"
                  /\ EventCount("Finalized", id) = 0
            /\ paidToBeneficiary[id] + Awaited(id) = c.penalized
            /\ EventCount("Finalized", id) <= 1
            /\ c.finalized => c.penalized + c.dailySlice * NumUnlocked(id) = c.principal

\* A finalize is waiting for the token, which has not moved the remainder
\* yet and may call back; a day of the challenge was never attested.
C36_Witness ==
    \E id \in ChallengeIds :
        /\ pending # <<>>
        /\ Head(pending).op = "finalize" /\ Head(pending).id = id
        /\ ~Head(pending).moved /\ Head(pending).amount > 0
        /\ paidToBeneficiary[id] = 0
        /\ 0 \notin challenges[id].dayUnlocked
        /\ attestChecks(verifier, id, 0) = "FINALIZED"
        /\ finalizeChecks(id) = "FINALIZED"


\* ----------------------------------------------------------------------- C34
\* C34: attestation stays possible after the period has ended while finalize
\* has not succeeded. For now >= startTime + durationDays * 1 day and an open
\* challenge, finalize passes its requires and so does attestCompletion by
\* the attester for every valid day not yet unlocked; the attestation goes
\* through and a finalize that comes after it sweeps one dailySlice less:
\* the remainder depends on which of the two comes first.
C34_AttestAfterEnd ==
    \A id \in ChallengeIds, d \in DayIndices :
        (Attestable(id, d) /\ now >= EndTime(id)) =>
            /\ finalizeChecks(id) = "OK"
            /\ attestChecks(verifier, id, d) = "OK"
            /\ ENABLED (/\ attestCompletion(verifier, id, d)
                        /\ finalizeChecks(id)' = "OK"
                        /\ finalizeRemainder(challenges[id])' =
                              finalizeRemainder(challenges[id]) - challenges[id].dailySlice)

\* At the end of an open challenge with a positive slice: a day was attested,
\* another can still be, and finalize would go through as well.
C34_Witness ==
    \E id \in ChallengeIds, d \in DayIndices :
        /\ now >= EndTime(id)
        /\ Attestable(id, d)
        /\ challenges[id].dailySlice > 0
        /\ NumUnlocked(id) = 1
        /\ attestChecks(verifier, id, d) = "OK"
        /\ finalizeChecks(id) = "OK"


\* ----------------------------------------------------------------------- C35
\* C35: a challenge whose principal is less than its durationDays has
\* dailySlice 0. An attestation that passes its requires still goes through
\* and unlocks its day, but released stays 0: the owner was never paid, the
\* owner's claimUnlocked ends in NOTHING_TO_CLAIM, and finalize sweeps the
\* whole principal to the beneficiary.
C35_ZeroSlice ==
    \A id \in ChallengeIds :
        LET c == challenges[id]
        IN  (Exists(id) /\ c.principal < c.durationDays) =>
              /\ c.dailySlice = 0
              /\ c.released = 0 /\ paidToUser[id] = 0
              /\ claimChecks(c.user, id) = "NOTHING_TO_CLAIM"
              /\ \A d \in DayIndices :
                    attestChecks(verifier, id, d) = "OK" =>
                        ENABLED (/\ attestCompletion(verifier, id, d)
                                 /\ isDayUnlocked(id, d)'
                                 /\ challenges'[id].released = 0)
              /\ IF c.finalized
                 THEN c.penalized = c.principal /\ paidToBeneficiary[id] = c.principal
                 ELSE finalizeRemainder(c) = c.principal /\ balance[Vault] >= c.principal

\* Both days of a two-day challenge with a principal of one unit were
\* attested; it is finalized and the unit went to the beneficiary.
C35_Witness ==
    \E id \in ChallengeIds :
        /\ challenges[id].principal = 1 /\ challenges[id].durationDays = 2
        /\ challenges[id].dayUnlocked = {0, 1}
        /\ EventCount("DayAttested", id) = 2
        /\ challenges[id].finalized
        /\ paidToBeneficiary[id] = 1
        /\ claimChecks(challenges[id].user, id) = "NOTHING_TO_CLAIM"


\* ----------------------------------------------------------------------- C37
\* C37: for every challenge createChallenge has accepted, startTime +
\* dayIndex * 1 day, for every dayIndex < durationDays, and startTime +
\* durationDays * 1 day fit the word: neither attestCompletion nor finalize
\* aborts on arithmetic overflow.
C37_TimesFitTheWord ==
    \A id \in ChallengeIds :
        Exists(id) =>
            /\ ~Overflows(EndTime(id))
            /\ finalizeChecks(id) # "PANIC_OVERFLOW"
            /\ \A d \in DayIndices :
                  d < challenges[id].durationDays =>
                      /\ ~Overflows(challenges[id].startTime + d * DAY)
                      /\ attestChecks(verifier, id, d) # "PANIC_OVERFLOW"


\* ----------------------------------------------------------------------- C38
\* C38: every created challenge is eventually finalized, under fair
\* scheduling of the clock and of finalize attempts with a willing token.
C38_EventuallyFinalized ==
    \A id \in ChallengeIds : [](Exists(id) => <>challenges[id].finalized)

\* What holds of it: every created challenge whose end instant startTime +
\* durationDays * 1 day the clock reaches is eventually finalized.
C38_EventuallyFinalizedInWord ==
    \A id \in ChallengeIds :
        []((Exists(id) /\ EndTime(id) <= MaxNow) => <>challenges[id].finalized)


\* ----------------------------------------------------------------------- C39
\* The step is a claimDaily returning after it has stored a new state / after
\* it has found the day already claimed.
ClaimAwards  == claimCall.pc = "fresh" /\ claimCall'.pc = "idle"
ClaimRepeats == claimCall.pc = "got" /\ claimCall'.pc = "idle"

\* C39: claimDaily awards at most once per calendar day. The first call on a
\* day adds 10 points and sets lastClaimDate to that day, with streak + 1 if
\* the previous claim was on the day before it and streak = 1 otherwise; a
\* further call on the same day returns the stored state and changes neither
\* points, streak nor lastClaimDate.
C39_DailyClaim ==
    [][/\ ClaimAwards =>
             LET today == claimCall.today
             IN  /\ claimStore.lastClaimDate # {today}
                 /\ claimStore'.lastClaimDate = {today}
                 /\ claimStore'.points = claimStore.points + 10
                 /\ claimStore'.streak = IF claimStore.lastClaimDate = {today - 1}
                                          THEN claimStore.streak + 1 ELSE 1
                 /\ claimCall'.result = claimStore'
       /\ ClaimRepeats =>
             /\ claimStore.lastClaimDate = {claimCall'.today}
             /\ claimStore' = claimStore
             /\ claimCall'.result = claimStore]_vars

\* What holds of it: the same, the streak being compared with the day before
\* the day the clock shows when the new state is computed; that is the day
\* before the claimed day unless midnight has passed since todayYmd().  No
\* day is claimed twice: the claimed days only increase.
C39_DailyClaimByTheClock ==
    [][/\ ClaimAwards =>
             LET today == claimCall.today
             IN  /\ claimStore.lastClaimDate # {today}
                 /\ \A d \in claimStore.lastClaimDate : d < today
                 /\ claimStore'.lastClaimDate = {today}
                 /\ claimStore'.points = claimStore.points + 10
                 /\ claimStore'.streak = IF claimStore.lastClaimDate = {todayYmd - 1}
                                          THEN claimStore.streak + 1 ELSE 1
                 /\ todayYmd = today =>
                        claimStore'.streak = IF claimStore.lastClaimDate = {today - 1}
                                             THEN claimStore.streak + 1 ELSE 1
       /\ ClaimRepeats =>
             /\ claimStore.lastClaimDate = {claimCall'.today}
             /\ claimStore' = claimStore
             /\ claimCall'.result = claimStore
       /\ claimStore' # claimStore => ClaimAwards]_vars


\* ----------------------------------------------------------------------- C40
\* The items in the stored list.
Stored == {todoStore[i] : i \in 1..Len(todoStore)}

\* C40: whatever the interleaving of the addTodo calls for one user, once
\* the calls have returned every item they returned is in the stored list:
\* both new items are present and no item stored before is lost.
C40_NoTodoLost ==
    (\A r \in Requests : addTodoCalls[r].pc = "idle") =>
        \A r \in Requests : addTodoCalls[r].returned \subseteq Stored

=============================================================================
